---- MODULE Spec2Model ----
(***************************************************************************)
(* A model of kernel_code/core_geodesics.c: core_geodesic() and            *)
(* compute_core_geodesic().                                                *)
(*                                                                         *)
(* Numbers.  A Real is modelled as an integer count of grid units, one     *)
(* unit being TORSION_EPSILON; arithmetic on the grid is exact.  PI is a   *)
(* whole number of units that every singularity index of the model         *)
(* divides, so PI / n is exact as well.  Real parts of the holonomies are  *)
(* even counts, so that the halving of line 230 is exact, as halving a     *)
(* binary floating-point number is.  A Dehn filling coefficient is a count *)
(* of halves: 2 stands for 1.0 and 5 for 2.5.                              *)
(*                                                                         *)
(* The manifold holds two cusps that carry the same data and differ in     *)
(* topology only: cusp 0 is a torus cusp, cusp 1 a Klein bottle cusp.  The *)
(* caller queries the cusps in index order.                                *)
(***************************************************************************)
EXTENDS Integers, FiniteSets, Sequences, TLC

(* ------------------------------------------------------------------ *)
(* Bounds of the model.                                               *)
(* ------------------------------------------------------------------ *)

\* Integer filling coefficients range over -MaxCoef .. MaxCoef.
MaxCoef == 4

(* ------------------------------------------------------------------ *)
(* Program constants.                                                 *)
(* ------------------------------------------------------------------ *)

TORSION_EPSILON == 1

PI == 60

ultimate == 0

penultimate == 1

M == 0

L == 1

\* The value IEEE arithmetic gives PI / 0: larger than every torsion.
Infinity == 1000000

\* The caller's precision slot before anything is written to it.
Unwritten == 0 - 1

Zero == [real |-> 0, imag |-> 0]

(* ------------------------------------------------------------------ *)
(* Helpers of the kernel that core_geodesics.c calls.                 *)
(* ------------------------------------------------------------------ *)

Abs(k) == IF k < 0 THEN 0 - k ELSE k

Sgn(k) == IF k < 0 THEN 0 - 1 ELSE IF k > 0 THEN 1 ELSE 0

complex_plus(z, w) == [real |-> z.real + w.real, imag |-> z.imag + w.imag]

complex_real_mult(r, z) == [real |-> r * z.real, imag |-> r * z.imag]

complex_negate(z) == [real |-> 0 - z.real, imag |-> 0 - z.imag]

\* Digits of agreement of two reals on the grid (one unit is 1e-5).
decimal_places_of_accuracy(x, y) ==
    LET d == Abs(x - y)
    IN  IF d = 0 THEN 15
        ELSE IF d < 10 THEN 4
        ELSE IF d < 100 THEN 3
        ELSE IF d < 1000 THEN 2
        ELSE 0

complex_decimal_places_of_accuracy(z, w) ==
    LET re == decimal_places_of_accuracy(z.real, w.real)
        im == decimal_places_of_accuracy(z.imag, w.imag)
    IN  IF re < im THEN re ELSE im

find_cusp(mfd, index) == mfd[index]

\* A coefficient (a count of halves) is an integer when the count is even.
Dehn_coefficients_are_integers(cusp) == cusp.m % 2 = 0 /\ cusp.l % 2 = 0

RECURSIVE ExtendedGcd(_, _)
\* The extended Euclidean algorithm on a, b >= 0: gcd = x*a + y*b.
ExtendedGcd(a, b) ==
    IF b = 0
    THEN [gcd |-> a, x |-> 1, y |-> 0]
    ELSE LET r == ExtendedGcd(b, a % b)
         IN  [gcd |-> r.gcd, x |-> r.y, y |-> r.x - (a \div b) * r.y]

\* euclidean_algorithm(m, n, &a, &b): the non-negative gcd, and Bezout
\* coefficients with a*m + b*n = gcd.  Not defined by its contract at (0, 0).
euclidean_algorithm(m, n) ==
    LET r == ExtendedGcd(Abs(m), Abs(n))
    IN  [gcd |-> r.gcd, a |-> Sgn(m) * r.x, b |-> Sgn(n) * r.y]

(* ------------------------------------------------------------------ *)
(* The steps of compute_core_geodesic() and core_geodesic().          *)
(* ------------------------------------------------------------------ *)

\* (long int) of a Real coefficient: truncation towards zero.
LongInt(x) == IF x >= 0 THEN x \div 2 ELSE 0 - ((0 - x) \div 2)

ShortCircuit_Mut(cusp) ==
    cusp.is_complete = TRUE /\ Dehn_coefficients_are_integers(cusp) = FALSE

\* The guard of lines 161-162.
ShortCircuit(cusp) ==
    cusp.is_complete = TRUE \/ Dehn_coefficients_are_integers(cusp) = FALSE

EuclidCall_Mut(cusp) == euclidean_algorithm(LongInt(cusp.m), LongInt(cusp.m))

\* The call of lines 177-181.
EuclidCall(cusp) == euclidean_algorithm(LongInt(cusp.m), LongInt(cusp.l))

RawLength_Mut(cusp, k, pos_d, neg_c) ==
    complex_plus(
        complex_real_mult(0 - neg_c, cusp.holonomy[ultimate][M]),
        complex_real_mult(pos_d, cusp.holonomy[ultimate][L]))

\* Lines 190-199.
RawLength(cusp, k, pos_d, neg_c) ==
    complex_plus(
        complex_real_mult(0 - neg_c, cusp.holonomy[k][M]),
        complex_real_mult(pos_d, cusp.holonomy[k][L]))

SignFix_Mut(z) == IF z.imag < 0 THEN complex_negate(z) ELSE z

\* Lines 204-205.
SignFix(z) == IF z.real < 0 THEN complex_negate(z) ELSE z

PiOverN_Mut(n) == IF n = 0 THEN Infinity ELSE PI

\* Line 213.
PiOverN(n) == IF n = 0 THEN Infinity ELSE PI \div n

\* The loop condition of line 215.
AddCond(t, p) == t < (0 - p) + TORSION_EPSILON

AddTurn_Mut(t, p) == t + p

\* Line 216.
AddTurn(t, p) == t + 2 * p

\* The loop condition of line 218.
SubCond(t, p) == t > p + TORSION_EPSILON

SubTurn_Mut(t, p) == t

\* Line 219.
SubTurn(t, p) == t - 2 * p

KleinHalve_Mut(z, topology) ==
    IF topology = "torus_cusp"
    THEN [real |-> z.real \div 2, imag |-> z.imag]
    ELSE z

\* Lines 229-230.
KleinHalve(z, topology) ==
    IF topology = "Klein_cusp"
    THEN [real |-> z.real \div 2, imag |-> z.imag]
    ELSE z

CoreLengthOut_Mut(si, len) == IF si # 0 THEN len[penultimate] ELSE Zero

\* Lines 127-129 and 135-137.
CoreLengthOut(si, len) == IF si # 0 THEN len[ultimate] ELSE Zero

\* Lines 131-133 and 139-140, with precision != NULL.
PrecisionOut(si, len) ==
    IF si # 0
    THEN complex_decimal_places_of_accuracy(len[ultimate], len[penultimate])
    ELSE 0

(* ------------------------------------------------------------------ *)
(* Inputs.                                                            *)
(* ------------------------------------------------------------------ *)

Snapshots == {ultimate, penultimate}

Curves == {M, L}

CuspIndices == {0, 1}

\* -MaxCoef .. MaxCoef as integers, and 2.5.
Coefficients == {2 * k : k \in (0 - MaxCoef) .. MaxCoef} \cup {5}

\* Log-holonomies: positive and negative real parts (even counts); a torsion
\* on the lower end -PI + TORSION_EPSILON of the range for n = 1, one a turn
\* above its upper end PI + TORSION_EPSILON, and one whose sign fix puts it
\* several turns below the range.
Holonomies ==
    { [real |-> 2,     imag |-> TORSION_EPSILON - PI],
      [real |-> 4,     imag |-> 3 * PI + TORSION_EPSILON],
      [real |-> 0 - 2, imag |-> 2 * PI + PI \div 2] }

CuspData ==
    [ is_complete : BOOLEAN,
      m : Coefficients,
      l : Coefficients,
      holonomy : [Snapshots -> [Curves -> Holonomies]] ]

WithTopology(d, topology) ==
    [ is_complete |-> d.is_complete, topology |-> topology,
      m |-> d.m, l |-> d.l, holonomy |-> d.holonomy ]

Manifolds ==
    { [idx \in CuspIndices |->
          WithTopology(d, IF idx = 0 THEN "torus_cusp" ELSE "Klein_cusp")]
      : d \in CuspData }

(* ------------------------------------------------------------------ *)
(* State.                                                             *)
(* ------------------------------------------------------------------ *)

VARIABLES
    manifold,           \* the Triangulation's cusps
    pc,                 \* the place of control
    queried,            \* the number of cusps the caller has queried
    cusp_index,         \* core_geodesic's argument
    want_precision,     \* precision != NULL
    singularity_index,  \* *singularity_index
    length,             \* Complex length[2]
    positive_d,
    negative_c,
    i,
    pi_over_n,
    core_length,        \* *core_length
    precision,          \* *precision
    raw,                \* history: length[k] as lines 190-199 computed it
    fixed,              \* history: length[k] after lines 204-205
    adds,               \* history: iterations of the loop of line 215
    subs,               \* history: iterations of the loop of line 218
    euclid_calls,       \* history: calls of euclidean_algorithm in this call
    results             \* history: what each query returned

vars == << manifold, pc, queried, cusp_index, want_precision,
           singularity_index, length, positive_d, negative_c, i, pi_over_n,
           core_length, precision, raw, fixed, adds, subs, euclid_calls,
           results >>

locals == << singularity_index, length, positive_d, negative_c, i, pi_over_n >>

history == << raw, fixed, adds, subs, euclid_calls >>

outputs == << core_length, precision >>

call == << cusp_index, want_precision >>

cusp == find_cusp(manifold, cusp_index)

ZeroLengths == [k \in Snapshots |-> Zero]

NoTurns == [k \in Snapshots |-> 0]

NoResult ==
    [ returned |-> FALSE, singularity_index |-> 0, length |-> ZeroLengths,
      core_length |-> Zero, precision |-> Unwritten, want_precision |-> FALSE ]

Init ==
    /\ manifold \in Manifolds
    /\ pc = "caller"
    /\ queried = 0
    /\ cusp_index = 0
    /\ want_precision = FALSE
    /\ singularity_index = 0
    /\ length = ZeroLengths
    /\ positive_d = 0
    /\ negative_c = 0
    /\ i = 0
    /\ pi_over_n = 0
    /\ core_length = Zero
    /\ precision = Unwritten
    /\ raw = ZeroLengths
    /\ fixed = ZeroLengths
    /\ adds = NoTurns
    /\ subs = NoTurns
    /\ euclid_calls = 0
    /\ results = [idx \in CuspIndices |-> NoResult]

(* ------------------------------------------------------------------ *)
(* Actions.                                                           *)
(* ------------------------------------------------------------------ *)

\* core_geodesic(manifold, cusp_index, ...) up to its call of
\* compute_core_geodesic (lines 104-121).
CoreGeodesic ==
    /\ pc = "caller"
    /\ queried \in CuspIndices
    /\ cusp_index' = queried
    /\ \E want \in BOOLEAN : want_precision' = want
    /\ pc' = "ccg_entry"
    /\ singularity_index' = 0
    /\ length' = ZeroLengths
    /\ positive_d' = 0
    /\ negative_c' = 0
    /\ i' = 0
    /\ pi_over_n' = 0
    /\ core_length' = Zero
    /\ precision' = Unwritten
    /\ raw' = ZeroLengths
    /\ fixed' = ZeroLengths
    /\ adds' = NoTurns
    /\ subs' = NoTurns
    /\ euclid_calls' = 0
    /\ UNCHANGED << manifold, queried, results >>

\* Lines 161-169: the cusp is unfilled or its coefficients are no integers.
EarlyReturn ==
    /\ pc = "ccg_entry"
    /\ ShortCircuit(cusp)
    /\ singularity_index' = 0
    /\ length' = [length EXCEPT ![ultimate] = Zero, ![penultimate] = Zero]
    /\ pc' = "cg_package"
    /\ UNCHANGED << manifold, queried, call, positive_d, negative_c, i,
                    pi_over_n, outputs, history, results >>

\* Lines 177-183: the Euclidean algorithm on coefficients not both zero.
CallEuclid ==
    /\ pc = "ccg_entry"
    /\ ~ShortCircuit(cusp)
    /\ ~(LongInt(cusp.m) = 0 /\ LongInt(cusp.l) = 0)
    /\ LET r == EuclidCall(cusp)
       IN  /\ singularity_index' = r.gcd
           /\ positive_d' = r.a
           /\ negative_c' = r.b
    /\ euclid_calls' = euclid_calls + 1
    /\ i' = 0
    /\ pc' = "ccg_for"
    /\ UNCHANGED << manifold, queried, call, length, pi_over_n, outputs,
                    raw, fixed, adds, subs, results >>

\* Lines 177-183 on (0, 0), where euclidean_algorithm's contract defines no
\* result: the call comes back with the gcd 0 the algorithm computes.
CallEuclidDegenerate ==
    /\ pc = "ccg_entry"
    /\ ~ShortCircuit(cusp)
    /\ LongInt(cusp.m) = 0 /\ LongInt(cusp.l) = 0
    /\ LET r == EuclidCall(cusp)
       IN  /\ singularity_index' = r.gcd
           /\ positive_d' = r.a
           /\ negative_c' = r.b
    /\ euclid_calls' = euclid_calls + 1
    /\ i' = 0
    /\ pc' = "ccg_for"
    /\ UNCHANGED << manifold, queried, call, length, pi_over_n, outputs,
                    raw, fixed, adds, subs, results >>

\* Lines 177-181 on (0, 0): the call does not come back (a fatal error in
\* euclidean_algorithm ends the program).
CallEuclidFatal ==
    /\ pc = "ccg_entry"
    /\ ~ShortCircuit(cusp)
    /\ LongInt(cusp.m) = 0 /\ LongInt(cusp.l) = 0
    /\ euclid_calls' = euclid_calls + 1
    /\ pc' = "fatal"
    /\ UNCHANGED << manifold, queried, call, locals, outputs,
                    raw, fixed, adds, subs, results >>

\* Lines 183-213: length[i], its sign, and pi_over_n.
ComputeLength ==
    /\ pc = "ccg_for"
    /\ i < 2
    /\ LET z == RawLength(cusp, i, positive_d, negative_c)
       IN  /\ raw' = [raw EXCEPT ![i] = z]
           /\ fixed' = [fixed EXCEPT ![i] = SignFix(z)]
           /\ length' = [length EXCEPT ![i] = SignFix(z)]
    /\ pi_over_n' = PiOverN(singularity_index)
    /\ pc' = "ccg_while_add"
    /\ UNCHANGED << manifold, queried, call, singularity_index, positive_d,
                    negative_c, i, outputs, adds, subs, euclid_calls,
                    results >>

\* Lines 215-216: one iteration.
AddLoop ==
    /\ pc = "ccg_while_add"
    /\ AddCond(length[i].imag, pi_over_n)
    /\ length' = [length EXCEPT ![i].imag = AddTurn(length[i].imag, pi_over_n)]
    /\ adds' = [adds EXCEPT ![i] = adds[i] + 1]
    /\ UNCHANGED << manifold, pc, queried, call, singularity_index,
                    positive_d, negative_c, i, pi_over_n, outputs, raw,
                    fixed, subs, euclid_calls, results >>

\* Line 215: the loop ends.
AddLoopExit ==
    /\ pc = "ccg_while_add"
    /\ ~AddCond(length[i].imag, pi_over_n)
    /\ pc' = "ccg_while_sub"
    /\ UNCHANGED << manifold, queried, call, locals, outputs, history,
                    results >>

\* Lines 218-219: one iteration.
SubLoop ==
    /\ pc = "ccg_while_sub"
    /\ SubCond(length[i].imag, pi_over_n)
    /\ length' = [length EXCEPT ![i].imag = SubTurn(length[i].imag, pi_over_n)]
    /\ subs' = [subs EXCEPT ![i] = subs[i] + 1]
    /\ UNCHANGED << manifold, pc, queried, call, singularity_index,
                    positive_d, negative_c, i, pi_over_n, outputs, raw,
                    fixed, adds, euclid_calls, results >>

\* Lines 218-232: the loop ends, the Klein bottle correction, i++.
SubLoopExit ==
    /\ pc = "ccg_while_sub"
    /\ ~SubCond(length[i].imag, pi_over_n)
    /\ length' = [length EXCEPT ![i] = KleinHalve(length[i], cusp.topology)]
    /\ i' = i + 1
    /\ pc' = "ccg_for"
    /\ UNCHANGED << manifold, queried, call, singularity_index, positive_d,
                    negative_c, pi_over_n, outputs, history, results >>

\* Lines 183 and 233: the for loop ends and compute_core_geodesic returns.
ComputeReturn ==
    /\ pc = "ccg_for"
    /\ ~(i < 2)
    /\ pc' = "cg_package"
    /\ UNCHANGED << manifold, queried, call, locals, outputs, history,
                    results >>

\* Lines 127-142: core_geodesic packages the results and returns.
Package ==
    /\ pc = "cg_package"
    /\ core_length' = CoreLengthOut(singularity_index, length)
    /\ precision' = IF want_precision
                    THEN PrecisionOut(singularity_index, length)
                    ELSE precision
    /\ results' = [results EXCEPT ![cusp_index] =
                     [ returned |-> TRUE,
                       singularity_index |-> singularity_index,
                       length |-> length,
                       core_length |-> core_length',
                       precision |-> precision',
                       want_precision |-> want_precision ]]
    /\ queried' = queried + 1
    /\ pc' = "caller"
    /\ UNCHANGED << manifold, call, locals, history >>

Next ==
    \/ CoreGeodesic
    \/ EarlyReturn
    \/ CallEuclid
    \/ CallEuclidDegenerate
    \/ CallEuclidFatal
    \/ ComputeLength
    \/ AddLoop
    \/ AddLoopExit
    \/ SubLoop
    \/ SubLoopExit
    \/ ComputeReturn
    \/ Package

Spec == Init /\ [][Next]_vars

\* The manifolds whose hyperbolic structure has converged: the two snapshots
\* of a cusp carry the same holonomies.
InitConverged ==
    /\ Init
    /\ \A idx \in CuspIndices :
           manifold[idx].holonomy[ultimate] = manifold[idx].holonomy[penultimate]

\* The call runs to completion on a single thread of control and is never
\* suspended: a step that can be taken is taken.
FairSpec == InitConverged /\ [][Next]_vars /\ WF_vars(Next)

(* ------------------------------------------------------------------ *)
(* Properties.                                                        *)
(* ------------------------------------------------------------------ *)

Divides(d, k) == k % d = 0

\* The greatest common divisor of a, b >= 0, not both 0, by its definition.
GreatestCommonDivisor(a, b) ==
    CHOOSE d \in 1 .. (a + b) :
        /\ Divides(d, a)
        /\ Divides(d, b)
        /\ \A e \in 1 .. (a + b) : (Divides(e, a) /\ Divides(e, b)) => e <= d

\* The cusp's coefficients as the integers the code casts them to.
IntM(c) == LongInt(c.m)

IntL(c) == LongInt(c.l)

Unfilled(c) == c.is_complete

NonInteger(c) == c.m % 2 # 0 \/ c.l % 2 # 0

\* Filled, with integer coefficients that are not both zero.
FilledInteger(c) ==
    /\ ~Unfilled(c)
    /\ ~NonInteger(c)
    /\ ~(c.m = 0 /\ c.l = 0)

\* Filled, with both coefficients the integer zero.
FilledZero(c) == ~Unfilled(c) /\ c.m = 0 /\ c.l = 0

InCall == pc \notin {"caller", "fatal"}

\* compute_core_geodesic has returned to core_geodesic.
ComputeReturned == pc = "cg_package"

\* Snapshot k's length has been computed and its sign fixed.
Started(k) ==
    \/ pc \in {"ccg_while_add", "ccg_while_sub"} /\ k <= i
    \/ pc \in {"ccg_for", "cg_package"} /\ k < i

\* Snapshot k's pass through the loop body is complete.
Finished(k) ==
    pc \in {"ccg_for", "ccg_while_add", "ccg_while_sub", "cg_package"} /\ k < i

LowerEnd(n) == (0 - (PI \div n)) + TORSION_EPSILON

UpperEnd(n) == (PI \div n) + TORSION_EPSILON

\* C1: when the cusp is unfilled or its coefficients are not both integers,
\* compute_core_geodesic returns singularity index 0 and two zero lengths,
\* whatever the holonomies, the topology and the coefficients; it does not
\* call the Euclidean algorithm and normalizes nothing.
C1_ShortCircuit ==
    (InCall /\ pc # "ccg_entry" /\ (Unfilled(cusp) \/ NonInteger(cusp))) =>
        /\ ComputeReturned
        /\ singularity_index = 0
        /\ length[ultimate] = Zero
        /\ length[penultimate] = Zero
        /\ euclid_calls = 0
        /\ adds = NoTurns
        /\ subs = NoTurns

C1_Witness ==
    /\ ComputeReturned
    /\ Unfilled(cusp)
    /\ ~NonInteger(cusp)
    /\ IntM(cusp) = 3
    /\ IntL(cusp) = 2
    /\ cusp.topology = "Klein_cusp"

\* C2: core_geodesic returns the singularity index of compute_core_geodesic;
\* its core length is length[ultimate] when the index is nonzero and Zero
\* when it is 0; a requested precision is the comparator's result on
\* (length[ultimate], length[penultimate]) when the index is nonzero and 0
\* when it is 0.
C2_Package ==
    (pc = "caller" /\ queried > 0) =>
        LET r == results[cusp_index]
        IN  /\ r.returned
            /\ r.singularity_index = singularity_index
            /\ r.length = length
            /\ r.core_length = core_length
            /\ core_length = IF singularity_index # 0
                             THEN length[ultimate]
                             ELSE Zero
            /\ want_precision =>
                   precision =
                       IF singularity_index # 0
                       THEN complex_decimal_places_of_accuracy(
                                length[ultimate], length[penultimate])
                       ELSE 0
            /\ ~want_precision => precision = Unwritten

C2_Witness ==
    /\ pc = "caller"
    /\ queried = 1
    /\ singularity_index = 2
    /\ want_precision
    /\ length[ultimate] # length[penultimate]
    /\ core_length = length[ultimate]
    /\ precision >= 0
    /\ precision < 15

\* C3: for a filled cusp with integer coefficients not both zero the
\* singularity index is gcd(|m|, |l|): at least 1, and 1 exactly when m and
\* l are coprime; (1, 0) gives 1 and (4, 0) gives 4.
C3_IndexIsGcd ==
    (InCall /\ pc # "ccg_entry" /\ FilledInteger(cusp)) =>
        /\ singularity_index =
               GreatestCommonDivisor(Abs(IntM(cusp)), Abs(IntL(cusp)))
        /\ singularity_index >= 1
        /\ (IntM(cusp) = 1 /\ IntL(cusp) = 0) => singularity_index = 1
        /\ (IntM(cusp) = 4 /\ IntL(cusp) = 0) => singularity_index = 4
        /\ singularity_index = 1 <=>
               \A e \in 2 .. MaxCoef + 1 :
                   ~(Divides(e, Abs(IntM(cusp))) /\ Divides(e, Abs(IntL(cusp))))

C3_Witness ==
    /\ ComputeReturned
    /\ FilledInteger(cusp)
    /\ IntM(cusp) = 0 - 4
    /\ IntL(cusp) = 2
    /\ singularity_index = 2

\* C4: for a filled cusp with integer coefficients (nonzero singularity
\* index) the real parts of both returned lengths, and of the core length
\* core_geodesic returns, are >= 0.
C4_NonNegative ==
    /\ (ComputeReturned /\ singularity_index # 0) =>
           /\ length[ultimate].real >= 0
           /\ length[penultimate].real >= 0
    /\ (pc = "caller" /\ queried > 0) => core_length.real >= 0

C4_Witness ==
    /\ ComputeReturned
    /\ singularity_index # 0
    /\ raw[ultimate].real < 0
    /\ raw[ultimate].imag < 0
    /\ length[ultimate].real > 0
    /\ negative_c > 0

\* C5 as stated: for singularity index n >= 1 each returned torsion lies in
\* the half-open interval (-pi/n + eps, pi/n + eps].
C5_HalfOpen ==
    (ComputeReturned /\ singularity_index >= 1) =>
        \A k \in Snapshots :
            /\ length[k].imag > LowerEnd(singularity_index)
            /\ length[k].imag <= UpperEnd(singularity_index)

\* C5, amended: for singularity index n >= 1 each returned torsion lies in
\* the closed interval [-pi/n + eps, pi/n + eps].
C5_Closed ==
    (ComputeReturned /\ singularity_index >= 1) =>
        \A k \in Snapshots :
            /\ length[k].imag >= LowerEnd(singularity_index)
            /\ length[k].imag <= UpperEnd(singularity_index)

C5_Witness ==
    /\ ComputeReturned
    /\ singularity_index = 1
    /\ fixed[ultimate].imag = LowerEnd(1)
    /\ length[ultimate].imag = LowerEnd(1)
    /\ length[penultimate].imag = UpperEnd(1)

\* C6: of two cusps filled with the same integer coefficients and the same
\* holonomies that differ in topology only, the Klein bottle cusp's real
\* parts are exactly half the torus cusp's, and the singularity indices and
\* the torsions are equal.
C6_KleinHalf ==
    (/\ results[0].returned
     /\ results[1].returned
     /\ results[0].singularity_index >= 1) =>
        /\ results[1].singularity_index = results[0].singularity_index
        /\ \A k \in Snapshots :
               /\ 2 * results[1].length[k].real = results[0].length[k].real
               /\ results[1].length[k].imag = results[0].length[k].imag

C6_Witness ==
    /\ results[0].returned
    /\ results[1].returned
    /\ results[0].singularity_index = 3
    /\ results[0].length[ultimate].real > 0
    /\ results[1].length[ultimate].real > 0
    /\ raw[ultimate].real < 0
    /\ adds[ultimate] > 0

\* C7 as stated: with d, c the integers of the Euclidean algorithm that
\* satisfy d*m - c*l = g, the length of snapshot k before the sign fix is
\* (-c)*H_k(m) + d*H_k(l).
C7_MinusC ==
    \A k \in Snapshots :
        (InCall /\ Started(k) /\ FilledInteger(cusp)) =>
            \E c \in {negative_c, 0 - negative_c} :
                /\ positive_d * IntM(cusp) - c * IntL(cusp) = singularity_index
                /\ raw[k].real = (0 - c) * cusp.holonomy[k][M].real
                                 + positive_d * cusp.holonomy[k][L].real
                /\ raw[k].imag = (0 - c) * cusp.holonomy[k][M].imag
                                 + positive_d * cusp.holonomy[k][L].imag

\* C7, amended: with d = positive_d and c = -negative_c, which satisfy
\* d*m - c*l = g, the length of snapshot k before the sign fix is
\* c*H_k(m) + d*H_k(l), from snapshot k's holonomies alone.
C7_PlusC ==
    \A k \in Snapshots :
        (InCall /\ Started(k) /\ FilledInteger(cusp)) =>
            LET c == 0 - negative_c
                d == positive_d
            IN  /\ d * IntM(cusp) - c * IntL(cusp) = singularity_index
                /\ raw[k].real = c * cusp.holonomy[k][M].real
                                 + d * cusp.holonomy[k][L].real
                /\ raw[k].imag = c * cusp.holonomy[k][M].imag
                                 + d * cusp.holonomy[k][L].imag

C7_Witness ==
    /\ ComputeReturned
    /\ FilledInteger(cusp)
    /\ IntM(cusp) = 3
    /\ IntL(cusp) = 2
    /\ positive_d = 1
    /\ negative_c = 0 - 1
    /\ cusp.holonomy[ultimate] # cusp.holonomy[penultimate]
    /\ raw[ultimate] # raw[penultimate]

\* C8: on a filled cusp whose integer coefficients are both zero,
\* compute_core_geodesic signals a domain error: it never reaches the
\* normalization with singularity index 0 and returns no length computed
\* from a gcd of (0, 0).
C8_DomainError ==
    \A idx \in CuspIndices :
        FilledZero(manifold[idx]) =>
            /\ ~results[idx].returned
            /\ (InCall /\ cusp_index = idx) => pc = "ccg_entry"

\* The distance of a torsion from the range of singularity index n.
Distance(t, n) ==
    IF t < LowerEnd(n) THEN LowerEnd(n) - t
    ELSE IF t > UpperEnd(n) THEN t - UpperEnd(n)
    ELSE 0

\* The two loops of a snapshot iterate at most distance / (2 pi/n) + 1 times.
IterationBound ==
    \A k \in Snapshots :
        (InCall /\ Started(k) /\ singularity_index >= 1) =>
            adds[k] + subs[k] <=
                Distance(fixed[k].imag, singularity_index)
                    \div (2 * (PI \div singularity_index)) + 1

C10_Normalization ==
    \A k \in Snapshots :
        (InCall /\ Started(k) /\ singularity_index >= 1) =>
            LET turn == 2 * (PI \div singularity_index)
                t0 == fixed[k].imag
            IN  /\ (length[k].imag - t0) % turn = 0
                /\ length[k].imag - t0 = (adds[k] - subs[k]) * turn
                /\ adds[k] = 0 \/ subs[k] = 0
                /\ (t0 >= LowerEnd(singularity_index)
                    /\ t0 <= UpperEnd(singularity_index)) =>
                       length[k].imag = t0
                /\ ~Finished(k) => length[k].real = fixed[k].real

C10_Witness ==
    /\ ComputeReturned
    /\ singularity_index = 2
    /\ adds[ultimate] >= 2
    /\ subs[penultimate] >= 2
    /\ fixed[ultimate].real > 0

====
